---------------------------- MODULE Spec2Model ----------------------------
(***************************************************************************)
(* A model of locustfile.py: the user class ApiUser(HttpUser) with its     *)
(* class attributes host and wait_time = between(1, 5) and its single      *)
(* task get_endpoint, which calls self.client.get("/infrastructure-info"). *)
(*                                                                         *)
(* The file only declares the user; what runs it is the locust library it  *)
(* subclasses.  The library semantics the declarations bind to are:        *)
(*   - HttpUser.run / DefaultTaskSet.run: state := running, then forever   *)
(*     pick the (only) task, execute it, then wait();                      *)
(*   - TaskSet.wait: state := waiting, sleep(wait_time()), state :=        *)
(*     running;                                                            *)
(*   - between(lo, hi): a sampler returning a value in [lo, hi], with no   *)
(*     memory of what it returned before;                                  *)
(*   - HttpSession.request: url := base_url + path, one request is sent,   *)
(*     a network error or a non-2xx status is caught and fired on the      *)
(*     request event as a failure, nothing is raised into the task;        *)
(*   - the runner stops a user by killing its greenlet (ramp-down, test    *)
(*     stop), whatever the user is doing.                                  *)
(* Users are greenlets: a user runs without interruption from one blocking *)
(* call (the GET, the sleep) to the next, so each action below is one such *)
(* stretch.  Time is counted in whole seconds.  The run is configured with *)
(* the host the class declares.                                            *)
(***************************************************************************)
EXTENDS Naturals, Sequences, FiniteSets, TLC

\* Bounds of the model: the simulated users, and the task executions of a
\* run (all users together).
NUsers == 2
MaxTasks == 3

Users == 1..NUsers

RECURSIVE SumTo(_, _)
SumTo(f, n) == IF n = 0 THEN 0 ELSE f[n] + SumTo(f, n - 1)

\* ---- the declarations of locustfile.py ----

\* host = "https://xen-global-system-895330382127.europe-west1.run.app"
ClassHost == "https://xen-global-system-895330382127.europe-west1.run.app"

\* wait_time = between(1, 5)
MinWait == 1
MaxWait == 5

\* The path get_endpoint passes to self.client.get.
EndpointPath == "/infrastructure-info"

\* between(lo, hi): the values the sampler may return, in whole seconds.
between(lo, hi) == lo..hi

\* The class attributes of ApiUser as a run sees them.
ClassAttrs ==
    [host |-> ClassHost, min_wait |-> MinWait, max_wait |-> MaxWait]

\* A faulty wait_time: the delay is drawn once and every later call
\* returns it again.
wait_time_sampled_once(c, prev) ==
    IF prev = 0 THEN between(c.min_wait, c.max_wait) ELSE {prev}

\* wait_time(): the delays a call may return under the class attributes c,
\* prev being the delay the user's previous call returned (0: none).  The
\* sampler closes over the two bounds only.
wait_time(c, prev) == between(c.min_wait, c.max_wait)

\* ---- the HTTP client ----

\* A faulty build_url: a separator is put between host and path.
build_url_slash(h, p) == h \o "/" \o p

\* HttpSession builds the target from the session's base url and the path.
build_url(h, p) == h \o p

\* self.client.get(p): the request put on the wire.
client_get(h, p) == [method |-> "GET", url |-> build_url(h, p)]

NoRequest == [method |-> "none", url |-> ""]
NoResponse == "none"

\* What the network can answer to a request.
NetFailures == {"timeout", "refused"}
Outcomes == {"ok", "http_error"} \cup NetFailures

\* The outcomes the request event carries an exception for: a caught
\* connection error, or a status raise_for_status rejects.
IsFailure(o) == o # "ok"

VARIABLES
    conf,       \* the class attributes: host, wait_time bounds
    state,      \* per user: idle, running, waiting, stopped
    inflight,   \* per user: the request its task has sent, or NoRequest
    response,   \* per user: the network's answer not yet picked up
    remaining,  \* per user: seconds left of the current sleep
    delay,      \* per user: the last delay wait_time() returned (0: none)
    nTasks,     \* per user: executions of get_endpoint started
    nGets,      \* per user: GET requests sent
    sent,       \* the distinct requests put on the wire by any user
    stats,      \* the engine's statistics: num_requests, num_failures
    destroyed   \* the users the engine has stopped

vars == <<conf, state, inflight, response, remaining, delay, nTasks, nGets,
          sent, stats, destroyed>>

States == {"idle", "running", "waiting", "stopped"}

TypeOK ==
    /\ conf \in [host : {ClassHost}, min_wait : Nat, max_wait : Nat]
    /\ state \in [Users -> States]
    /\ response \in [Users -> Outcomes \cup {NoResponse}]
    /\ remaining \in [Users -> 0..MaxWait]
    /\ delay \in [Users -> 0..MaxWait]
    /\ nTasks \in [Users -> 0..MaxTasks]
    /\ nGets \in [Users -> 0..MaxTasks]
    /\ stats \in [num_requests : 0..MaxTasks, num_failures : 0..MaxTasks]
    /\ destroyed \subseteq Users

Init ==
    /\ conf = ClassAttrs
    /\ state = [u \in Users |-> "idle"]
    /\ inflight = [u \in Users |-> NoRequest]
    /\ response = [u \in Users |-> NoResponse]
    /\ remaining = [u \in Users |-> 0]
    /\ delay = [u \in Users |-> 0]
    /\ nTasks = [u \in Users |-> 0]
    /\ nGets = [u \in Users |-> 0]
    /\ sent = {}
    /\ stats = [num_requests |-> 0, num_failures |-> 0]
    /\ destroyed = {}

\* ---- the task ----

\* A faulty get_endpoint: the client is shared by all users, so one user's
\* request shows as every user's.
get_endpoint_shared_client(u) ==
    LET req == client_get(conf.host, EndpointPath) IN
    /\ inflight' = [v \in Users |-> req]
    /\ nGets' = [nGets EXCEPT ![u] = @ + 1]
    /\ sent' = sent \cup {req}
    /\ UNCHANGED conf

\* A faulty get_endpoint: the task writes the host attribute.
get_endpoint_rebinds_host(u) ==
    LET req == client_get(conf.host, EndpointPath) IN
    /\ inflight' = [inflight EXCEPT ![u] = req]
    /\ nGets' = [nGets EXCEPT ![u] = @ + 1]
    /\ sent' = sent \cup {req}
    /\ conf' = [conf EXCEPT !.host = req.url]

\* get_endpoint(self): self.client.get("/infrastructure-info").  One request
\* is sent and the user blocks until the network answers; the return value
\* is dropped and no attribute is written.
get_endpoint(u) ==
    LET req == client_get(conf.host, EndpointPath) IN
    /\ inflight' = [inflight EXCEPT ![u] = req]
    /\ nGets' = [nGets EXCEPT ![u] = @ + 1]
    /\ sent' = sent \cup {req}
    /\ UNCHANGED conf

\* A faulty execute_next_task: a task starts only when no other user has a
\* request out (a client that blocks the whole process).
execute_next_task_blocking(u) ==
    /\ SumTo(nTasks, NUsers) < MaxTasks
    /\ \A v \in Users \ {u} : inflight[v] = NoRequest
    /\ nTasks' = [nTasks EXCEPT ![u] = @ + 1]
    /\ get_endpoint(u)

\* execute_next_task: the one registered task is called.
execute_next_task(u) ==
    /\ SumTo(nTasks, NUsers) < MaxTasks
    /\ nTasks' = [nTasks EXCEPT ![u] = @ + 1]
    /\ get_endpoint(u)

\* ---- the user's loop ----

\* A faulty Spawn: the loop sleeps before its first task.
Spawn_waits_first(u) ==
    /\ state[u] = "idle"
    /\ state' = [state EXCEPT ![u] = "waiting"]
    /\ \E d \in wait_time(conf, 0) :
          /\ remaining' = [remaining EXCEPT ![u] = d]
          /\ delay' = [delay EXCEPT ![u] = d]
    /\ UNCHANGED <<conf, inflight, response, nTasks, nGets, sent, stats,
                   destroyed>>

\* The runner spawns the user: run() sets the state to running and the loop
\* executes its first task at once.
Spawn(u) ==
    /\ state[u] = "idle"
    /\ state' = [state EXCEPT ![u] = "running"]
    /\ execute_next_task(u)
    /\ UNCHANGED <<response, remaining, delay, stats, destroyed>>

\* The network answers the request of u with outcome o.
NetDeliver(u, o) ==
    /\ state[u] = "running"
    /\ inflight[u] # NoRequest
    /\ response[u] = NoResponse
    /\ response' = [response EXCEPT ![u] = o]
    /\ UNCHANGED <<conf, state, inflight, remaining, delay, nTasks, nGets,
                   sent, stats, destroyed>>

\* A faulty report: only a rejected status counts as a failure.
report_status_only(o) ==
    [num_requests |-> stats.num_requests + 1,
     num_failures |-> stats.num_failures + (IF o = "http_error" THEN 1 ELSE 0)]

\* A faulty report: only a network error counts as a failure.
report_lenient(o) ==
    [num_requests |-> stats.num_requests + 1,
     num_failures |-> stats.num_failures + (IF o \in NetFailures THEN 1 ELSE 0)]

\* The request event: the engine's statistics take the outcome as it is.
report(o) ==
    [num_requests |-> stats.num_requests + 1,
     num_failures |-> stats.num_failures + (IF IsFailure(o) THEN 1 ELSE 0)]

\* A faulty Resume: a failed request raises out of the task and ends the
\* user.
Resume_raises(u, d) ==
    /\ state[u] = "running"
    /\ response[u] # NoResponse
    /\ d \in wait_time(conf, delay[u])
    /\ stats' = report(response[u])
    /\ inflight' = [inflight EXCEPT ![u] = NoRequest]
    /\ response' = [response EXCEPT ![u] = NoResponse]
    /\ IF IsFailure(response[u])
         THEN /\ state' = [state EXCEPT ![u] = "stopped"]
              /\ remaining' = [remaining EXCEPT ![u] = 0]
              /\ delay' = [delay EXCEPT ![u] = 0]
         ELSE /\ state' = [state EXCEPT ![u] = "waiting"]
              /\ remaining' = [remaining EXCEPT ![u] = d]
              /\ delay' = [delay EXCEPT ![u] = d]
    /\ UNCHANGED <<conf, nTasks, nGets, sent, destroyed>>

\* The user picks the answer up: the client fires the request event,
\* get_endpoint returns, and the loop calls wait(), which samples a delay d
\* and sleeps.
Resume(u, d) ==
    /\ state[u] = "running"
    /\ response[u] # NoResponse
    /\ d \in wait_time(conf, delay[u])
    /\ stats' = report(response[u])
    /\ inflight' = [inflight EXCEPT ![u] = NoRequest]
    /\ response' = [response EXCEPT ![u] = NoResponse]
    /\ state' = [state EXCEPT ![u] = "waiting"]
    /\ remaining' = [remaining EXCEPT ![u] = d]
    /\ delay' = [delay EXCEPT ![u] = d]
    /\ UNCHANGED <<conf, nTasks, nGets, sent, destroyed>>

\* One second passes for every sleeping user.
Tick ==
    /\ \E u \in Users : state[u] = "waiting" /\ remaining[u] > 0
    /\ remaining' = [u \in Users |->
          IF state[u] = "waiting" /\ remaining[u] > 0
            THEN remaining[u] - 1 ELSE remaining[u]]
    /\ UNCHANGED <<conf, state, inflight, response, delay, nTasks, nGets,
                   sent, stats, destroyed>>

\* A faulty WakeUp: the sleep may be cut short.
WakeUp_early(u) ==
    /\ state[u] = "waiting"
    /\ state' = [state EXCEPT ![u] = "running"]
    /\ remaining' = [remaining EXCEPT ![u] = 0]
    /\ execute_next_task(u)
    /\ UNCHANGED <<response, delay, stats, destroyed>>

\* The sleep is over: wait() returns, the state is running again and the
\* loop executes the next task.
WakeUp(u) ==
    /\ state[u] = "waiting"
    /\ remaining[u] = 0
    /\ state' = [state EXCEPT ![u] = "running"]
    /\ execute_next_task(u)
    /\ UNCHANGED <<response, remaining, delay, stats, destroyed>>

\* The engine stops u (ramp-down or test stop): its greenlet is killed and
\* whatever it was doing is dropped.
Stop(u) ==
    /\ state[u] \in {"running", "waiting"}
    /\ destroyed' = destroyed \cup {u}
    /\ state' = [state EXCEPT ![u] = "stopped"]
    /\ inflight' = [inflight EXCEPT ![u] = NoRequest]
    /\ response' = [response EXCEPT ![u] = NoResponse]
    /\ remaining' = [remaining EXCEPT ![u] = 0]
    /\ delay' = [delay EXCEPT ![u] = 0]
    /\ UNCHANGED <<conf, nTasks, nGets, sent, stats>>

Next ==
    \/ \E u \in Users : Spawn(u)
    \/ \E u \in Users, o \in Outcomes : NetDeliver(u, o)
    \/ \E u \in Users, d \in 0..(MaxWait + 1) : Resume(u, d)
    \/ Tick
    \/ \E u \in Users : WakeUp(u)
    \/ \E u \in Users : Stop(u)

Spec == Init /\ [][Next]_vars

\* ---- the claims ----

\* The target endpoint as the interface documents it.
DocumentedTarget ==
    "https://xen-global-system-895330382127.europe-west1.run.app/infrastructure-info"

\* The task executions started so far, all users together.
TasksStarted == SumTo(nTasks, NUsers)

\* C1: every request get_endpoint issues, for every user and every
\* execution, is a GET whose target is the configured host followed by
\* /infrastructure-info; all requests of a run are the same request.
C1_RequestTarget ==
    /\ conf.host = "https://xen-global-system-895330382127.europe-west1.run.app"
    /\ \A u \in Users : inflight[u] # NoRequest =>
          /\ inflight[u].method = "GET"
          /\ inflight[u].url = DocumentedTarget
    /\ \A r \in sent :
          r.method = "GET" /\ r.url = DocumentedTarget
    /\ Cardinality(sent) <= 1

\* Both users have a request out, one of them for its second execution.
C1_Witness ==
    \E u, v \in Users :
        /\ u # v
        /\ nGets[u] >= 2
        /\ inflight[u] # NoRequest
        /\ inflight[v] # NoRequest

\* C2: every sampled delay d has 1 <= d <= 5, and whatever delay a user
\* drew before, each of 1..5 (and nothing else) can be drawn next.
C2_DelayRange ==
    /\ \A u \in Users : state[u] = "waiting" =>
          /\ delay[u] \in 1..5
          /\ remaining[u] <= delay[u]
    /\ \A u \in Users : response[u] # NoResponse =>
          /\ \A d \in 1..5 : ENABLED Resume(u, d)
          /\ ~ ENABLED Resume(u, 0)
          /\ ~ ENABLED Resume(u, 6)

\* A user that drew 5 before is about to draw again, while the other
\* sleeps on a delay of 1.
C2_Witness ==
    \E u, v \in Users :
        /\ response[u] # NoResponse
        /\ delay[u] = 5
        /\ state[v] = "waiting"
        /\ delay[v] = 1

\* C3: when the answer a user picks up is a network failure (timeout,
\* connection refused) and the engine does not stop the user in that step,
\* the failure is counted in the engine's statistics and the user goes on
\* to a wait of 1..5 seconds, from which the next task can start.
C3_FailureRecordedSessionContinues ==
    /\ [][\A u \in Users :
            (/\ response[u] \in NetFailures
             /\ response'[u] = NoResponse
             /\ u \notin destroyed')
            => /\ stats'.num_failures = stats.num_failures + 1
               /\ stats'.num_requests = stats.num_requests + 1
               /\ state'[u] = "waiting"
               /\ remaining'[u] \in 1..5]_vars
    /\ [](\A u \in Users :
            (state[u] = "waiting" /\ remaining[u] = 0
                /\ TasksStarted < MaxTasks)
            => ENABLED WakeUp(u))

\* A user whose first request was recorded as a failure is executing its
\* next task, and the answer to that one is a network failure too.
C3_Witness ==
    \E u \in Users :
        /\ state[u] = "running"
        /\ nTasks[u] >= 2
        /\ stats.num_failures >= 1
        /\ stats.num_requests = 1
        /\ response[u] \in NetFailures
        /\ \A v \in Users \ {u} : nTasks[v] = 0

\* C4: a user sends exactly one GET per task execution, and a task
\* execution after the user's first starts only from a wait whose sampled
\* duration, between 1 and 5 seconds, has fully passed; a sleep runs down
\* one second at a time.
C4_OneGetThenWait ==
    /\ [](\A u \in Users : nGets[u] = nTasks[u])
    /\ [][\A u \in Users :
            /\ nTasks'[u] # nTasks[u] =>
                  /\ nTasks'[u] = nTasks[u] + 1
                  /\ nGets'[u] = nGets[u] + 1
            /\ (nTasks'[u] # nTasks[u] /\ nTasks[u] >= 1) =>
                  /\ state[u] = "waiting"
                  /\ delay[u] \in 1..5
                  /\ remaining[u] = 0
            /\ (state[u] = "waiting" /\ state'[u] = "waiting") =>
                  \/ remaining'[u] = remaining[u]
                  \/ remaining'[u] + 1 = remaining[u]
            /\ (state[u] # "waiting" /\ state'[u] = "waiting") =>
                  remaining'[u] = delay'[u]]_vars

\* A user is executing its second task.
C4_Witness ==
    \E u \in Users :
        /\ state[u] = "running"
        /\ nTasks[u] = 2
        /\ nGets[u] = 2
        /\ inflight[u] # NoRequest

\* What belongs to user u.
UserView(u) ==
    <<state[u], inflight[u], response[u], remaining[u], delay[u], nTasks[u],
      nGets[u]>>

\* A step u would take running alone, written over u's own state and the
\* class attributes only.
SoloStep(u) ==
    \/ /\ state[u] \in {"idle", "waiting"}
       /\ state[u] = "waiting" => remaining[u] = 0
       /\ state'[u] = "running"
       /\ inflight'[u] = [method |-> "GET",
                          url |-> DocumentedTarget]
       /\ nTasks'[u] = nTasks[u] + 1
       /\ nGets'[u] = nGets[u] + 1
       /\ <<response'[u], remaining'[u], delay'[u]>>
             = <<response[u], remaining[u], delay[u]>>
    \/ /\ state[u] = "running"
       /\ response[u] = NoResponse
       /\ response'[u] \in Outcomes
       /\ <<state'[u], inflight'[u], remaining'[u], delay'[u], nTasks'[u],
            nGets'[u]>>
             = <<state[u], inflight[u], remaining[u], delay[u], nTasks[u],
                 nGets[u]>>
    \/ /\ state[u] = "running"
       /\ response[u] # NoResponse
       /\ UserView(u)' = <<"waiting", NoRequest, NoResponse, delay'[u],
                           delay'[u], nTasks[u], nGets[u]>>
       /\ delay'[u] \in 1..5
    \/ /\ state[u] = "waiting"
       /\ remaining[u] > 0
       /\ UserView(u)' = <<state[u], inflight[u], response[u],
                           remaining[u] - 1, delay[u], nTasks[u], nGets[u]>>
    \/ /\ state[u] \in {"running", "waiting"}
       /\ UserView(u)' = <<"stopped", NoRequest, NoResponse, 0, 0,
                           nTasks[u], nGets[u]>>

\* A second passes: nothing but the sleeps' remaining time changes.
TimePasses ==
    \A u \in Users :
        /\ <<state'[u], inflight'[u], response'[u], delay'[u], nTasks'[u],
             nGets'[u]>>
              = <<state[u], inflight[u], response[u], delay[u], nTasks[u],
                  nGets[u]>>
        /\ remaining'[u] \in {remaining[u], remaining[u] - 1}

\* C5: the users are independent loops: a step other than the passing of
\* time changes the state of at most one user, and what each user's state
\* goes through is what that user could go through running alone.
C5_IndependentLoops ==
    [][/\ \/ TimePasses
          \/ \A u, v \in Users : u # v =>
                \/ UserView(u)' = UserView(u)
                \/ UserView(v)' = UserView(v)
       /\ \A u \in Users : UserView(u)' = UserView(u) \/ SoloStep(u)]_vars

\* Both users are in their loops at different places: one blocked in its
\* second request, the other asleep.
C5_Witness ==
    \E u, v \in Users :
        /\ state[u] = "running"
        /\ nTasks[u] = 2
        /\ state[v] = "waiting"
        /\ remaining[v] > 0

\* User v is not held up: the step its own state calls for can be taken.
CanProgress(v) ==
    /\ (state[v] = "idle" /\ TasksStarted < MaxTasks) => ENABLED Spawn(v)
    /\ (state[v] = "running" /\ response[v] = NoResponse) =>
          \A o \in Outcomes : ENABLED NetDeliver(v, o)
    /\ (state[v] = "running" /\ response[v] # NoResponse) =>
          \A d \in 1..5 : ENABLED Resume(v, d)
    /\ (state[v] = "waiting" /\ remaining[v] > 0) => ENABLED Tick
    /\ (state[v] = "waiting" /\ remaining[v] = 0
           /\ TasksStarted < MaxTasks) => ENABLED WakeUp(v)

\* C6: while a user is blocked in its GET (the request is out, no answer
\* yet), every other user can still start and complete its waits and task
\* executions.
C6_BlockedUserBlocksNoOne ==
    \A u, v \in Users :
        (u # v /\ state[u] = "running" /\ response[u] = NoResponse)
        => CanProgress(v)

\* One user has been blocked in its first GET while the other completed a
\* task and a wait and started its second task.
C6_Witness ==
    \E u, v \in Users :
        /\ u # v
        /\ state[u] = "running"
        /\ response[u] = NoResponse
        /\ nTasks[u] = 1
        /\ nTasks[v] = 2
        /\ state[v] = "running"

\* User u picks up the answer to its request in this step, and is not
\* stopped by the engine in it.
PicksUp(u) ==
    /\ response[u] # NoResponse
    /\ response'[u] = NoResponse
    /\ u \notin destroyed'

\* C7: no retry: a task execution sends exactly one GET whatever the
\* network answers (ok, a non-2xx status, a timeout, a refused connection),
\* picking the answer up sends nothing more, and the engine's statistics
\* take the outcome as it is: one more request, and one more failure
\* exactly when the outcome is not a success.
C7_NoRetryOutcomeUnmodified ==
    /\ [](\A u \in Users :
            /\ nGets[u] = nTasks[u]
            /\ (state[u] = "running" /\ response[u] = NoResponse)
                  => \A o \in Outcomes : ENABLED NetDeliver(u, o))
    /\ [][\A u \in Users : PicksUp(u) =>
            /\ nGets' = nGets
            /\ inflight'[u] = NoRequest
            /\ stats'.num_requests = stats.num_requests + 1
            /\ stats'.num_failures = stats.num_failures
                  + (IF response[u] = "ok" THEN 0 ELSE 1)]_vars
    /\ [][stats' # stats => \E u \in Users : PicksUp(u)]_vars

\* Two requests were answered, one of them not successfully, and a user
\* has the answer to its third request, a non-2xx status, to pick up.
C7_Witness ==
    /\ stats.num_requests = 2
    /\ stats.num_failures = 1
    /\ \E u \in Users : response[u] = "http_error" /\ nGets[u] = 3

\* C8 as stated: the session enters Waiting first and only then executes
\* its first task, and Waiting and Executing Task alternate from there.
C8_WaitsBeforeFirstTask ==
    [][\A u \in Users : state'[u] # state[u] =>
          \/ state[u] = "idle" /\ state'[u] = "waiting"
          \/ state[u] = "waiting" /\ state'[u] = "running"
          \/ state[u] = "running" /\ state'[u] = "waiting"
          \/ state'[u] = "stopped"]_vars

\* C8 (amended): a session goes Idle -> Executing Task -> Waiting ->
\* Executing Task -> ...: it executes its first task as soon as it starts,
\* with no wait before it, and from then on executing and waiting strictly
\* alternate until the engine stops the session; the session has a request
\* out exactly while it is executing.
C8_TaskFirstThenAlternate ==
    /\ [][\A u \in Users : state'[u] # state[u] =>
            \/ state[u] = "idle" /\ state'[u] = "running"
            \/ state[u] = "running" /\ state'[u] = "waiting"
            \/ state[u] = "waiting" /\ state'[u] = "running"
            \/ state'[u] = "stopped" /\ u \in destroyed']_vars
    /\ [](\A u \in Users :
            /\ state[u] = "running" <=> inflight[u] # NoRequest
            /\ state[u] = "waiting" => nTasks[u] >= 1
            /\ state[u] = "idle" => nTasks[u] = 0)

\* A session in its second wait: it has executed, waited, executed.
C8_Witness ==
    \E u \in Users :
        /\ state[u] = "waiting"
        /\ nTasks[u] = 2
        /\ u \notin destroyed

\* C9: executing the task and waiting leave the configuration as it is:
\* the host and the wait bounds 1 and 5 never change in a run, and a task
\* execution starts with nothing left of the one before it (no request and
\* no answer are kept once the task has returned).
C9_ConfigurationUnchanged ==
    /\ [][conf' = conf]_vars
    /\ [](/\ conf.host = ClassHost
          /\ conf.min_wait = 1
          /\ conf.max_wait = 5)
    /\ [](\A u \in Users : state[u] # "running" =>
            inflight[u] = NoRequest /\ response[u] = NoResponse)
    /\ [][\A u \in Users : nTasks'[u] # nTasks[u] =>
            /\ inflight[u] = NoRequest
            /\ response[u] = NoResponse
            /\ response'[u] = NoResponse]_vars

\* A user has executed the task three times and sleeps, the other has
\* not started.
C9_Witness ==
    \E u \in Users :
        /\ nTasks[u] = 3
        /\ state[u] = "waiting"
        /\ remaining[u] < delay[u]
        /\ \A v \in Users \ {u} : state[v] = "idle"

\* C10: a session ends only by the engine stopping it; no answer to a
\* request, failures included, ends it; a stopped session stays stopped and
\* sends nothing more; and a session in its loop always has its next step.
C10_EndsOnlyByEngine ==
    /\ [][\A u \in Users :
            /\ (state'[u] = "stopped" /\ state[u] # "stopped")
                  => (u \in destroyed' /\ u \notin destroyed)
            /\ state[u] = "stopped" => UserView(u)' = UserView(u)]_vars
    /\ [](\A u \in Users :
            /\ state[u] = "stopped" <=> u \in destroyed
            /\ state[u] = "stopped" => inflight[u] = NoRequest
            /\ state[u] \in {"running", "waiting"} => CanProgress(u))

\* The engine stopped a session after two executions that both failed.
C10_Witness ==
    \E u \in Users :
        /\ u \in destroyed
        /\ nTasks[u] = 2
        /\ stats.num_failures = 2
        /\ \A v \in Users \ {u} : nTasks[v] = 0

=============================================================================
